---- MODULE Spec2Model ----
(***************************************************************************)
(* A model of the Task-to-Pod compiler of                                  *)
(* src/pkg/reconciler/taskrun/resources/pod.go (MakePod and its helpers).  *)
(*                                                                         *)
(* Strings on which the code computes (names, paths, arguments) are        *)
(* sequences of chunks whose concatenation is the string: names are split  *)
(* into characters, paths into "/" and path components.  The empty string  *)
(* is <<>>.  Strings the code only copies or compares (label keys, volume  *)
(* names, script text) are TLA+ strings.                                   *)
(*                                                                         *)
(* Go reference types are modelled with a heap: `maps` holds the           *)
(* Resources.Requests maps (0 is the nil map), `arrays` holds the backing  *)
(* arrays of the Args slices (a slice is an array id and a length, its     *)
(* capacity is the length of the array).                                   *)
(***************************************************************************)
EXTENDS Integers, Sequences, FiniteSets, TLC

VARIABLES
    taskSpec,                  \* the caller's v1alpha1.TaskSpec
    taskRun,                   \* the caller's v1alpha1.TaskRun
    given,                     \* the steps' values when MakePod was called
    env,                       \* what the collaborators answer in this call
    maps,                      \* heap: map id -> corev1.ResourceList
    arrays,                    \* heap: array id -> backing array of a []string
    pc,                        \* position of MakePod: "begin", "loop", "finish", "done"
    i,                         \* the loop index of line 141 (Go index, from 0)
    initContainers,            \* local of MakePod, line 113
    volumes,                   \* local of MakePod, line 114
    podSteps,                  \* local of MakePod, line 127
    maxIndicesByResource,      \* local of MakePod, line 129
    placeScripts,              \* local of MakePod, line 131
    placeScriptsInitContainer, \* local of MakePod, line 132
    consulted,                 \* the collaborators called so far, in order
    result,                    \* what MakePod returned: [pod, err]
    units,                     \* heap: unit id -> the Annotations of a live corev1.Pod
    stored,                    \* the Annotations of the unit as the update function stored it
    callers,                   \* the callers of AddReadyAnnotation: [p, pc, log]
    parked,                    \* the locals of the invocation of MakePod that is not running
    running,                   \* the invocation of MakePod the locals above belong to
    accessed                   \* invocation -> the heap locations it has read and written

vars == <<taskSpec, taskRun, given, env, maps, arrays, pc, i, initContainers, volumes,
          podSteps, maxIndicesByResource, placeScripts, placeScriptsInitContainer,
          consulted, result, units, stored, callers, parked, running, accessed>>

\* The variables AddReadyAnnotation works on, besides the unit MakePod returned.
markerVars == <<units, stored, callers>>

\* The invocations of MakePod: which one runs, and the one that waits.
frameVars == <<parked, running>>

----------------------------------------------------------------------------
(* Bounds of the model. *)

MaxSteps == 3
MaxQty == 2
MaxMounts == 2
MaxArgs == 3
MaxVolumes == 2
MaxSidecars == 1
MaxCallers == 2
MaxCalls == 2

----------------------------------------------------------------------------
(* Constants of the program. *)

workspaceDir == <<"/", "workspace">>
homeDir == <<"/", "builder", "/", "home">>
scriptsDir == <<"/", "builder", "/", "scripts">>

taskRunLabelKey == "tekton.dev/taskRun"
ManagedByLabelKey == "app.kubernetes.io/managed-by"
ManagedByLabelValue == <<"tekton-pipelines">>

containerPrefix == <<"s", "t", "e", "p", "-">>
unnamedInitContainerPrefix == <<"s", "t", "e", "p", "-", "u", "n", "n", "a", "m", "e", "d", "-">>
sidecarPrefix == <<"s", "i", "d", "e", "c", "a", "r", "-">>
ReadyAnnotation == "tekton.dev/ready"
readyAnnotationValue == <<"READY">>

emptyVolumeSource == "EmptyDir"
implicitEnvVars == << [Name |-> "HOME", Value |-> homeDir] >>
implicitVolumeMounts ==
    << [Name |-> "workspace", MountPath |-> workspaceDir],
       [Name |-> "home", MountPath |-> homeDir] >>
implicitVolumes ==
    << [Name |-> "workspace", VolumeSource |-> emptyVolumeSource],
       [Name |-> "home", VolumeSource |-> emptyVolumeSource] >>
scriptsVolume == [Name |-> "place-scripts", VolumeSource |-> emptyVolumeSource]
scriptsVolumeMount == [Name |-> "place-scripts", MountPath |-> scriptsDir]

zeroQty == 0

ResourceCPU == "cpu"
ResourceMemory == "memory"
ResourceEphemeralStorage == "ephemeral-storage"
\* the resourceNames passed at line 129
TrackedResources == {ResourceCPU, ResourceMemory, ResourceEphemeralStorage}

EntrypointFlag == <<"-entrypoint">>

\* entrypoint.InitContainerName, the reserved name of the entrypoint carrier
InitContainerName == <<"p", "l", "a", "c", "e", "-", "t", "o", "o", "l", "s">>

\* names.maxNameLength, the length RestrictLength cuts a name to
maxNameLength == 63

----------------------------------------------------------------------------
(* Strings. *)

Nil == 0

HasPrefix(s, prefix) ==
    /\ Len(s) >= Len(prefix)
    /\ SubSeq(s, 1, Len(prefix)) = prefix

\* strings.TrimLeft: s without its leading chunks that are in cutset.
RECURSIVE TrimLeft(_, _)
TrimLeft(s, cutset) ==
    IF s # <<>> /\ \E k \in 1..Len(cutset) : cutset[k] = Head(s)
    THEN TrimLeft(Tail(s), cutset) ELSE s

\* strings.TrimPrefix
TrimPrefix(s, prefix) ==
    IF HasPrefix(s, prefix) THEN SubSeq(s, Len(prefix) + 1, Len(s)) ELSE s

Digits == <<"0", "1", "2", "3", "4", "5", "6", "7", "8", "9">>

\* fmt.Sprintf("%d", n) for n >= 0
RECURSIVE Itoa(_)
Itoa(n) ==
    IF n < 10 THEN <<Digits[n + 1]>>
    ELSE Itoa(n \div 10) \o <<Digits[(n % 10) + 1]>>

\* names.SimpleNameGenerator.RestrictLength: the name cut to maxNameLength
RestrictLength(base) ==
    IF Len(base) > maxNameLength THEN SubSeq(base, 1, maxNameLength) ELSE base

\* names.SimpleNameGenerator.RestrictLengthWithRandomSuffix: the base, "-" and
\* random characters; the random characters are one opaque chunk
RestrictLengthWithRandomSuffix(base) == base \o <<"-", "<random>">>

\* The components of a path: its chunks between the "/" separators.
Components(path) == SelectSeq(path, LAMBDA c : c # "/")

RECURSIVE CleanComponents(_, _, _)
CleanComponents(comps, rooted, out) ==
    IF comps = <<>> THEN out
    ELSE LET c == Head(comps)
             rest == Tail(comps)
         IN  IF c = "" \/ c = "." THEN CleanComponents(rest, rooted, out)
             ELSE IF c = ".."
                  THEN IF out # <<>> /\ out[Len(out)] # ".."
                       THEN CleanComponents(rest, rooted, SubSeq(out, 1, Len(out) - 1))
                       ELSE IF rooted THEN CleanComponents(rest, rooted, out)
                       ELSE CleanComponents(rest, rooted, Append(out, c))
                  ELSE CleanComponents(rest, rooted, Append(out, c))

RECURSIVE JoinComponents(_)
JoinComponents(comps) ==
    IF comps = <<>> THEN <<>>
    ELSE IF Len(comps) = 1 THEN comps
    ELSE <<Head(comps), "/">> \o JoinComponents(Tail(comps))

\* filepath.Clean
Clean(path) ==
    IF path = <<>> THEN <<".">>
    ELSE LET rooted == path[1] = "/"
             out == CleanComponents(Components(path), rooted, <<>>)
         IN  IF rooted THEN <<"/">> \o JoinComponents(out)
             ELSE IF out = <<>> THEN <<".">>
             ELSE JoinComponents(out)

----------------------------------------------------------------------------
(* The heap: maps and slices. *)

Max(S) == CHOOSE x \in S : \A y \in S : y <= x

\* The id of the next object allocated on heap h.
FreshId(h) == IF DOMAIN h = {} THEN 1 ELSE Max(DOMAIN h) + 1

EmptyMap == [name \in {} |-> zeroQty]

NilSlice == [arr |-> Nil, len |-> 0]

SliceCap(h, s) == IF s.arr = Nil THEN 0 ELSE Len(h[s.arr])

\* The elements of slice s, s[0] to s[len-1].
SliceElems(h, s) == IF s.arr = Nil THEN <<>> ELSE SubSeq(h[s.arr], 1, s.len)

\* Go's append(s, x) for a []string: in place when the capacity allows, else
\* into a new array of doubled capacity.  Gives the new heap and the new slice.
AppendString(h, s, x) ==
    IF s.len < SliceCap(h, s)
    THEN [arrays |-> [h EXCEPT ![s.arr][s.len + 1] = x],
          slice |-> [arr |-> s.arr, len |-> s.len + 1]]
    ELSE LET cap == SliceCap(h, s)
             newcap == IF 2 * cap > s.len + 1 THEN 2 * cap ELSE s.len + 1
             id == FreshId(h)
             arr == [j \in 1..newcap |->
                        IF j <= s.len THEN h[s.arr][j]
                        ELSE IF j = s.len + 1 THEN x ELSE <<>>]
         IN  [arrays |-> (id :> arr) @@ h,
              slice |-> [arr |-> id, len |-> s.len + 1]]

----------------------------------------------------------------------------
(* The helpers of MakePod. *)

\* A slip in line 380: >= for >, so that a later step wins a tie.
ExceedsOrTies(req, maxReq) == req >= maxReq

\* req.Cmp(maxReq) > 0, line 380
Exceeds(req, maxReq) == req > maxReq

\* The scan of findMaxResourceRequest over steps[0..k-1] for one resource
\* name: the index of the maximum so far and the maximum.
RECURSIVE ScanMax(_, _, _, _)
ScanMax(steps, h, name, k) ==
    IF k = 0 THEN [idx |-> -1, req |-> zeroQty]
    ELSE LET prev == ScanMax(steps, h, name, k - 1)
             ref == steps[k].Requests
             exists == ref # Nil /\ name \in DOMAIN h[ref]
         IN  IF exists /\ Exceeds(h[ref][name], prev.req)
             THEN [idx |-> k - 1, req |-> h[ref][name]]
             ELSE prev

findMaxResourceRequest(steps, h) ==
    [name \in TrackedResources |-> ScanMax(steps, h, name, Len(steps)).idx]

\* A slip in line 361: nothing is zeroed when no step holds the maximum.
NotMaxOfSome(maxIdx, stepIndex) == maxIdx # stepIndex /\ maxIdx # -1

\* A slip in line 361: == for !=, the step that holds the maximum is zeroed.
IsMax(maxIdx, stepIndex) == maxIdx = stepIndex

\* maxIdx != stepIndex, line 361
NotMax(maxIdx, stepIndex) == maxIdx # stepIndex

\* zeroNonMaxResourceRequests on the step whose Requests is ref: the new heap
\* and the step's Requests.
zeroNonMaxResourceRequests(h, ref, stepIndex, maxIdxs) ==
    LET r == IF ref = Nil THEN FreshId(h) ELSE ref
        h1 == IF ref = Nil THEN (r :> EmptyMap) @@ h ELSE h
        zeroed == {name \in DOMAIN maxIdxs : NotMax(maxIdxs[name], stepIndex)}
        m == [name \in (DOMAIN h1[r]) \cup zeroed |->
                 IF name \in zeroed THEN zeroQty ELSE h1[r][name]]
    IN  [maps |-> [h1 EXCEPT ![r] = m], ref |-> r, written |-> zeroed]

\* The set built at lines 147-150.
requestedVolumeMounts(vms) == {Clean(vms[k].MountPath) : k \in 1..Len(vms)}

\* A slip in lines 149 and 152: the paths compared as written.
NotRequestedAsWritten(vms, imp) ==
    imp.MountPath \notin {vms[k].MountPath : k \in 1..Len(vms)}

\* !requestedVolumeMounts[filepath.Clean(imp.MountPath)], line 152
NotRequested(vms, imp) == Clean(imp.MountPath) \notin requestedVolumeMounts(vms)

\* Lines 147-155: the step's mounts with the implicit mounts added.
WithImplicitMounts(vms) ==
    vms \o SelectSeq(implicitVolumeMounts, LAMBDA imp : NotRequested(vms, imp))

\* The file the script of step i is placed in, line 163.
TmpFile(idx) ==
    scriptsDir \o <<"/">>
        \o RestrictLengthWithRandomSuffix(<<"script-">> \o Itoa(idx))

\* The heredoc placeholder, line 171.
Heredoc == RestrictLengthWithRandomSuffix(<<"script-heredoc-randomly-generated">>)

\* The loop of lines 195-199, from index j on.
RECURSIVE RedirectLoop(_, _, _, _)
RedirectLoop(h, args, j, tmpFile) ==
    IF j >= args.len THEN [arrays |-> h, slice |-> args]
    ELSE IF h[args.arr][j + 1] = EntrypointFlag
         THEN LET r == AppendString(h, [arr |-> args.arr, len |-> j + 1], tmpFile)
              IN  RedirectLoop(r.arrays, r.slice, j + 1, tmpFile)
         ELSE RedirectLoop(h, args, j + 1, tmpFile)

\* A slip in line 194: the file is not appended.
RewriteArgsNoAppend(h, args, tmpFile) == RedirectLoop(h, args, 0, tmpFile)

\* Lines 194-199: the arguments of a step with a script.
RewriteArgs(h, args, tmpFile) ==
    LET r == AppendString(h, args, tmpFile)
    IN  RedirectLoop(r.arrays, r.slice, 0, tmpFile)

\* Lines 203-205.
DefaultWorkingDir(dir) == IF dir = <<>> THEN workspaceDir ELSE dir

\* Lines 206-210: the container name of step idx.
StepName(name, idx) ==
    IF name = <<>> THEN unnamedInitContainerPrefix \o Itoa(idx)
    ELSE RestrictLength(containerPrefix \o name)

\* Line 258: the container name of a sidecar.
SidecarName(name) == RestrictLength(sidecarPrefix \o name)

\* A slip in line 216: strings.HasPrefix for ==.
IsEntrypointCarrierByPrefix(name) ==
    HasPrefix(name, RestrictLength(containerPrefix \o InitContainerName))

\* The test of line 216.
IsEntrypointCarrier(name) ==
    name = RestrictLength(containerPrefix \o InitContainerName)

IsContainerStep(name) == HasPrefix(name, containerPrefix)

IsContainerSidecar(name) == HasPrefix(name, sidecarPrefix)

\* A slip in TrimContainerNamePrefix: strings.TrimLeft for strings.TrimPrefix.
TrimContainerNameLeft(containerName) == TrimLeft(containerName, containerPrefix)

TrimContainerNamePrefix(containerName) == TrimPrefix(containerName, containerPrefix)

TrimSidecarNamePrefix(containerName) == TrimPrefix(containerName, sidecarPrefix)

\* labels[k] = v on a Go map
MapSet(m, k, v) == [x \in (DOMAIN m) \cup {k} |-> IF x = k THEN v ELSE m[x]]

\* for k, v := range src { dst[k] = v }
MapCopyInto(dst, src) ==
    [x \in (DOMAIN dst) \cup (DOMAIN src) |-> IF x \in DOMAIN src THEN src[x] ELSE dst[x]]

\* A slip in makeLabels: the TaskRun's labels copied last.
makeLabelsCopiedLast(s) ==
    LET l0 == MapSet(EmptyMap, ManagedByLabelKey, ManagedByLabelValue)
        l1 == MapSet(l0, taskRunLabelKey, s.Name)
    IN  MapCopyInto(l1, s.Labels)

makeLabels(s) ==
    LET l0 == MapSet(EmptyMap, ManagedByLabelKey, ManagedByLabelValue)
        l1 == MapCopyInto(l0, s.Labels)
    IN  MapSet(l1, taskRunLabelKey, s.Name)

\* A slip in makeAnnotations: the placeholder set before the copy.
makeAnnotationsCopiedLast(s) ==
    MapCopyInto(MapSet(EmptyMap, ReadyAnnotation, <<>>), s.Annotations)

makeAnnotations(s) ==
    MapSet(MapCopyInto(EmptyMap, s.Annotations), ReadyAnnotation, <<>>)

----------------------------------------------------------------------------
(* The collaborators: pod.CredsInit, pod.WorkingDirInit,                   *)
(* v1alpha1.ValidateVolumes, the random source and                         *)
(* v1alpha1.MergeStepsWithStepTemplate.  Their code is outside the         *)
(* compiler; env holds what they answer in this call.                      *)

\* A corev1.Container.  origin records where the container comes from; the
\* code does not read it.
Container(name, origin) ==
    [Name |-> name, Args |-> NilSlice, Env |-> <<>>, VolumeMounts |-> <<>>,
     WorkingDir |-> <<>>, Requests |-> Nil, origin |-> origin]

credsInitContainer ==
    Container(RestrictLengthWithRandomSuffix(<<"credential-initializer">>),
              [kind |-> "creds", index |-> -1])

workingDirInit ==
    Container(RestrictLengthWithRandomSuffix(<<"working-dir-initializer">>),
              [kind |-> "workingDir", index |-> -1])

VolumeNames(vols) == {vols[k].Name : k \in 1..Len(vols)}

\* v1alpha1.ValidateVolumes: an error when two volumes have the same name.
ValidateVolumes(vols) ==
    IF Cardinality(VolumeNames(vols)) < Len(vols) THEN "duplicate volume name" ELSE ""

\* A slip in lines 244-246: the error of the read is dropped.
ReadRandomUnchecked(rand) ==
    [b |-> SubSeq(rand.data, 1, IF Len(rand.data) < 3 THEN Len(rand.data) ELSE 3),
     err |-> ""]

\* ioutil.ReadAll(io.LimitReader(randReader, 3)), line 243: rand.data are the
\* bytes the source yields before it ends, rand.err whether it ends with an
\* error (and not with io.EOF, which ReadAll does not report).
ReadRandom(rand) ==
    IF Len(rand.data) < 3 /\ rand.err
    THEN [b |-> <<>>, err |-> "random source"]
    ELSE [b |-> SubSeq(rand.data, 1, IF Len(rand.data) < 3 THEN Len(rand.data) ELSE 3),
          err |-> ""]

HexDigits == <<"0", "1", "2", "3", "4", "5", "6", "7", "8", "9",
               "a", "b", "c", "d", "e", "f">>

\* hex.EncodeToString
RECURSIVE HexEncode(_)
HexEncode(b) ==
    IF b = <<>> THEN <<>>
    ELSE <<HexDigits[(Head(b) \div 16) + 1], HexDigits[(Head(b) % 16) + 1]>>
             \o HexEncode(Tail(b))

\* The merge of the step template's requests into the steps from the k-th on:
\* the template gives the defaults, what a step sets itself wins.  Every
\* merged step gets a map of its own.
RECURSIVE MergeFrom(_, _, _, _)
MergeFrom(template, steps, k, h) ==
    IF k > Len(steps) THEN [steps |-> steps, maps |-> h]
    ELSE LET id == FreshId(h)
             own == IF steps[k].Requests = Nil THEN EmptyMap ELSE h[steps[k].Requests]
             m == MapCopyInto(template.Requests, own)
         IN  MergeFrom(template, [steps EXCEPT ![k].Requests = id], k + 1, (id :> m) @@ h)

\* v1alpha1.MergeStepsWithStepTemplate; template is <<>> (nil) or <<t>>.
MergeStepsWithStepTemplate(template, steps, h) ==
    IF template = <<>> THEN [steps |-> steps, maps |-> h]
    ELSE MergeFrom(template[1], steps, 1, h)

----------------------------------------------------------------------------
(* The heap locations an invocation reads and writes: the entries          *)
(* <<map, name>> of the Requests maps and the elements <<array, index>>    *)
(* (Go index) of the backing arrays of the Args slices.                    *)

NoAccess == [mapReads |-> {}, mapWrites |-> {}, arrayReads |-> {}, arrayWrites |-> {}]

\* Lines 376-379: findMaxResourceRequest looks every tracked name up in every
\* map that is not nil.
MapReads(steps) ==
    {<<steps[k].Requests, name>> :
         k \in {j \in 1..Len(steps) : steps[j].Requests # Nil}, name \in TrackedResources}

\* What append(s, x) reads and writes: the next element when the capacity
\* allows, else the elements of s, copied to a new array.
AppendAccess(h, s) ==
    IF s.len < SliceCap(h, s)
    THEN [reads |-> {}, writes |-> {<<s.arr, s.len>>}]
    ELSE [reads |-> {<<s.arr, j>> : j \in 0..(s.len - 1)},
          writes |-> {<<FreshId(h), j>> : j \in 0..s.len}]

\* What the loop of lines 195-199 reads and writes, from index j on.
RECURSIVE RedirectAccess(_, _, _, _)
RedirectAccess(h, args, j, tmpFile) ==
    IF j >= args.len THEN [reads |-> {}, writes |-> {}]
    ELSE IF h[args.arr][j + 1] = EntrypointFlag
         THEN LET cut == [arr |-> args.arr, len |-> j + 1]
                  a == AppendAccess(h, cut)
                  r == AppendString(h, cut, tmpFile)
                  rest == RedirectAccess(r.arrays, r.slice, j + 1, tmpFile)
              IN  [reads |-> {<<args.arr, j>>} \cup a.reads \cup rest.reads,
                   writes |-> a.writes \cup rest.writes]
         ELSE LET rest == RedirectAccess(h, args, j + 1, tmpFile)
              IN  [reads |-> {<<args.arr, j>>} \cup rest.reads, writes |-> rest.writes]

\* What lines 194-199 read and write.
RewriteAccess(h, args, tmpFile) ==
    LET a == AppendAccess(h, args)
        r == AppendString(h, args, tmpFile)
        rest == RedirectAccess(r.arrays, r.slice, 0, tmpFile)
    IN  [reads |-> a.reads \cup rest.reads, writes |-> a.writes \cup rest.writes]

----------------------------------------------------------------------------
(* MakePod. *)

NoResult == [pod |-> <<>>, err |-> ""]

Failed(e) == [pod |-> <<>>, err |-> e]

\* The shell fragment of lines 177-182 for one script.
ScriptFragment(tmpFile, script) ==
    <<"tmpfile=\"">> \o tmpFile
        \o <<"\"\ntouch ${tmpfile} && chmod +x ${tmpfile}\ncat > ${tmpfile} << '">>
        \o Heredoc \o <<"'\n", script, "\n">> \o Heredoc \o <<"\n">>

\* Lines 113-139: the init containers of the collaborators, the maximum
\* request per resource, the place-scripts container.
Begin ==
    /\ pc = "begin"
    /\ IF env.creds = "err"
       THEN /\ result' = Failed("creds-init")
            /\ pc' = "done"
            /\ consulted' = <<"CredsInit">>
            /\ UNCHANGED <<arrays, initContainers, volumes, maxIndicesByResource,
                           placeScriptsInitContainer, accessed>>
       ELSE LET id == FreshId(arrays)
            IN  /\ initContainers' =
                       (IF env.creds = "container" THEN <<credsInitContainer>> ELSE <<>>)
                           \o (IF env.workingDirInit THEN <<workingDirInit>> ELSE <<>>)
                /\ volumes' = IF env.creds = "container" THEN env.secretsVolumes ELSE <<>>
                /\ maxIndicesByResource' = findMaxResourceRequest(taskSpec.Steps, maps)
                /\ arrays' = (id :> << <<"-c">>, <<>> >>) @@ arrays
                /\ placeScriptsInitContainer' =
                       [Container(RestrictLengthWithRandomSuffix(<<"place-scripts">>),
                                  [kind |-> "placeScripts", index |-> -1])
                           EXCEPT !.Args = [arr |-> id, len |-> 2],
                                  !.VolumeMounts = <<scriptsVolumeMount>>]
                /\ pc' = IF Len(taskSpec.Steps) = 0 THEN "finish" ELSE "loop"
                /\ consulted' = <<"CredsInit", "WorkingDirInit">>
                /\ accessed' = [accessed EXCEPT
                                    ![running].mapReads = @ \cup MapReads(taskSpec.Steps)]
                /\ UNCHANGED result
    /\ i' = 0
    /\ placeScripts' = FALSE
    /\ podSteps' = <<>>
    /\ UNCHANGED <<taskSpec, taskRun, given, env, maps, markerVars, frameVars>>

\* A slip in line 160: the flag follows the step at hand.
PlaceScriptsOfLast(flag, script) == script # ""

\* Lines 159-160: placeScripts after a step with this script.
PlaceScriptsAfter(flag, script) == flag \/ script # ""

\* Lines 141-222: one iteration of the loop over taskSpec.Steps.
Step ==
    /\ pc = "loop"
    /\ LET s == taskSpec.Steps[i + 1]
           hasScript == s.Script # ""
           tmpFile == TmpFile(i)
           mounts == WithImplicitMounts(s.VolumeMounts)
           placed == [arrays EXCEPT ![placeScriptsInitContainer.Args.arr][2] =
                                        @ \o ScriptFragment(tmpFile, s.Script)]
           rewritten == RewriteArgs(placed, s.Args, tmpFile)
           name == StepName(s.Name, i)
           c == [Name |-> name,
                 Args |-> IF hasScript THEN rewritten.slice ELSE s.Args,
                 Env |-> implicitEnvVars \o s.Env,
                 VolumeMounts |-> IF hasScript THEN Append(mounts, scriptsVolumeMount)
                                  ELSE mounts,
                 WorkingDir |-> DefaultWorkingDir(s.WorkingDir),
                 Requests |-> s.Requests,
                 origin |-> [kind |-> "step", index |-> i]]
           zeroed == zeroNonMaxResourceRequests(maps, s.Requests, i, maxIndicesByResource)
           onArgs == IF hasScript THEN RewriteAccess(placed, s.Args, tmpFile)
                     ELSE [reads |-> {}, writes |-> {}]
           onMaps == IF IsEntrypointCarrier(name) THEN {}
                     ELSE {<<zeroed.ref, n>> : n \in zeroed.written}
       IN  /\ placeScripts' = PlaceScriptsAfter(placeScripts, s.Script)
           /\ accessed' = [accessed EXCEPT
                               ![running].mapWrites = @ \cup onMaps,
                               ![running].arrayReads = @ \cup onArgs.reads,
                               ![running].arrayWrites = @ \cup onArgs.writes]
           /\ arrays' = IF hasScript THEN rewritten.arrays ELSE arrays
           /\ IF IsEntrypointCarrier(name)
              THEN /\ initContainers' = Append(initContainers, c)
                   /\ UNCHANGED <<podSteps, maps>>
              ELSE /\ maps' = zeroed.maps
                   /\ podSteps' = Append(podSteps, [c EXCEPT !.Requests = zeroed.ref])
                   /\ UNCHANGED initContainers
    /\ i' = i + 1
    /\ pc' = IF i + 1 = Len(taskSpec.Steps) THEN "finish" ELSE "loop"
    /\ UNCHANGED <<taskSpec, taskRun, given, env, volumes, maxIndicesByResource,
                   placeScriptsInitContainer, consulted, result, markerVars, frameVars>>

\* A slip in lines 225-226: the pod template's volumes before the task's.
CollectVolumesTemplateFirst(vols, declared, template) ==
    vols \o template \o declared \o implicitVolumes

\* Lines 224-229: the volumes collected so far, the task's, the pod template's
\* and the implicit ones.
CollectVolumes(vols, declared, template) ==
    vols \o declared \o template \o implicitVolumes

\* Lines 233-234.
WithScriptsVolume(vols, flag) == IF flag THEN Append(vols, scriptsVolume) ELSE vols

\* A slip in line 235: the place-scripts container put first.
WithPlaceScriptsFirst(inits, flag, c) == IF flag THEN <<c>> \o inits ELSE inits

\* Lines 233 and 235.
WithPlaceScripts(inits, flag, c) == IF flag THEN Append(inits, c) ELSE inits

\* Lines 257-260: the sidecars, renamed.
Sidecars(scs) ==
    [k \in 1..Len(scs) |->
        [scs[k] EXCEPT !.Name = SidecarName(@),
                       !.origin = [kind |-> "sidecar", index |-> k - 1]]]

\* Lines 224-292: the volumes, their validation, the name and the unit.
Finish ==
    /\ pc = "finish"
    /\ LET vols == WithScriptsVolume(
                       CollectVolumes(volumes, taskSpec.Volumes, taskRun.PodTemplateVolumes),
                       placeScripts)
           inits == WithPlaceScripts(initContainers, placeScripts, placeScriptsInitContainer)
           invalid == ValidateVolumes(vols)
           random == ReadRandom(env.rand)
           gibberish == HexEncode(random.b)
           merged == MergeStepsWithStepTemplate(taskSpec.StepTemplate, podSteps, maps)
           thePod == [Namespace |-> taskRun.Namespace,
                      Name |-> taskRun.Name \o <<"-pod-">> \o gibberish,
                      OwnerReferences |-> <<taskRun.Name>>,
                      Annotations |-> makeAnnotations(taskRun),
                      Labels |-> makeLabels(taskRun),
                      RestartPolicy |-> "Never",
                      InitContainers |-> inits,
                      Containers |-> merged.steps \o Sidecars(taskSpec.Sidecars),
                      Volumes |-> vols]
       IN  /\ volumes' = vols
           /\ initContainers' = inits
           /\ IF invalid # ""
              THEN /\ result' = Failed(invalid)
                   /\ consulted' = consulted \o <<"ValidateVolumes">>
                   /\ UNCHANGED maps
              ELSE IF random.err # ""
              THEN /\ result' = Failed(random.err)
                   /\ consulted' = consulted \o <<"ValidateVolumes", "randReader">>
                   /\ UNCHANGED maps
              ELSE IF env.mergeErr
              THEN /\ result' = Failed("merge")
                   /\ consulted' = consulted \o <<"ValidateVolumes", "randReader",
                                                  "MergeStepsWithStepTemplate">>
                   /\ UNCHANGED maps
              ELSE /\ result' = [pod |-> <<thePod>>, err |-> ""]
                   /\ consulted' = consulted \o <<"ValidateVolumes", "randReader",
                                                  "MergeStepsWithStepTemplate">>
                   /\ maps' = merged.maps
    /\ pc' = "done"
    /\ UNCHANGED <<taskSpec, taskRun, given, env, arrays, i, podSteps, maxIndicesByResource,
                   placeScripts, placeScriptsInitContainer, markerVars, frameVars,
                   accessed>>

Next == Begin \/ Step \/ Finish

----------------------------------------------------------------------------
(* Two invocations of MakePod.  The locals above are those of the          *)
(* invocation that runs; `parked` holds the locals of the other one, with  *)
(* the heap as it was when that one ran last.  Switch lets the other       *)
(* invocation run, between any two steps; CallAgain lets it run once the   *)
(* first has returned.  The TaskSpec and the heap are the same for both.   *)

Frame(tr, e, at, j, inits, vols, steps, maxIdxs, flag, psc, cons, res, id, h, a) ==
    [taskRun |-> tr, env |-> e, pc |-> at, i |-> j, initContainers |-> inits,
     volumes |-> vols, podSteps |-> steps, maxIndicesByResource |-> maxIdxs,
     placeScripts |-> flag, placeScriptsInitContainer |-> psc, consulted |-> cons,
     result |-> res, id |-> id, maps |-> h, arrays |-> a]

\* The locals of the invocation that runs.
CurrentFrame ==
    Frame(taskRun, env, pc, i, initContainers, volumes, podSteps, maxIndicesByResource,
          placeScripts, placeScriptsInitContainer, consulted, result, running, maps, arrays)

Switch ==
    /\ parked # <<>>
    /\ taskRun' = parked[1].taskRun
    /\ env' = parked[1].env
    /\ pc' = parked[1].pc
    /\ i' = parked[1].i
    /\ initContainers' = parked[1].initContainers
    /\ volumes' = parked[1].volumes
    /\ podSteps' = parked[1].podSteps
    /\ maxIndicesByResource' = parked[1].maxIndicesByResource
    /\ placeScripts' = parked[1].placeScripts
    /\ placeScriptsInitContainer' = parked[1].placeScriptsInitContainer
    /\ consulted' = parked[1].consulted
    /\ result' = parked[1].result
    /\ running' = parked[1].id
    /\ parked' = <<CurrentFrame>>
    /\ UNCHANGED <<taskSpec, given, maps, arrays, accessed, markerVars>>

CallAgain ==
    /\ pc = "done"
    /\ parked # <<>>
    /\ parked[1].pc = "begin"
    /\ Switch

\* Two invocations of MakePod that run concurrently.
NextConcurrent == Next \/ Switch

\* Two invocations of MakePod, one after the other.
NextTwice == Next \/ CallAgain

----------------------------------------------------------------------------
(* AddReadyAnnotation.  A caller holds a pointer p to a unit: Returned is   *)
(* the unit MakePod returned, any other pointer a unit of the heap `units`. *)
(* The Annotations of a unit are <<>> (a nil map) or <<m>>.  A call is two  *)
(* steps, lines 299-303 and the call of the update function with the       *)
(* return, lines 304-306.  The log of a caller has one entry per call:     *)
(* the annotations before the call, whether the update function was        *)
(* called, whether the call has returned, what it returned and whether the *)
(* update was stored.                                                      *)

Returned == -1

\* p.ObjectMeta.Annotations
AnnotationsOf(p) == IF p = Returned THEN <<result.pod[1].Annotations>> ELSE units[p]

\* A slip in line 302: the key is looked for, not its value.
HasReadyKey(m) == ReadyAnnotation \in DOMAIN m

\* The negation of the test of line 302; a key the map lacks reads as "".
IsReady(m) == ReadyAnnotation \in DOMAIN m /\ m[ReadyAnnotation] = readyAnnotationValue

\* A slip in line 303: the placeholder value written.
MarkedEmpty(m) == MapSet(m, ReadyAnnotation, <<>>)

\* Line 303.
Marked(m) == MapSet(m, ReadyAnnotation, readyAnnotationValue)

\* Lines 298-303 and 309: the map made when nil, the test, the annotation.
AddReadyAnnotation(c) ==
    /\ callers[c].pc = "idle"
    /\ Len(callers[c].log) < MaxCalls
    /\ callers[c].p = Returned => (pc = "done" /\ result.pod # <<>>)
    /\ LET p == callers[c].p
           before == AnnotationsOf(p)
           m == IF before = <<>> THEN EmptyMap ELSE before[1]
           ready == IsReady(m)
           after == IF ready THEN m ELSE Marked(m)
           entry == [before |-> before, update |-> ~ready, returned |-> ready,
                     err |-> "", ok |-> FALSE]
       IN  /\ IF p = Returned
              THEN /\ result' = [result EXCEPT !.pod[1].Annotations = after]
                   /\ UNCHANGED units
              ELSE /\ units' = [units EXCEPT ![p] = <<after>>]
                   /\ UNCHANGED result
           /\ callers' = [callers EXCEPT ![c].pc = IF ready THEN "idle" ELSE "update",
                                         ![c].log = Append(@, entry)]
    /\ UNCHANGED <<taskSpec, taskRun, given, env, maps, arrays, pc, i, initContainers,
                   volumes, podSteps, maxIndicesByResource, placeScripts,
                   placeScriptsInitContainer, consulted, stored, frameVars, accessed>>

\* Lines 304-306: the update function is called with p, it stores the unit
\* or fails, and its error is returned.
UpdatePod(c) ==
    /\ callers[c].pc = "update"
    /\ \E ok \in BOOLEAN :
           /\ stored' = IF ok THEN AnnotationsOf(callers[c].p) ELSE stored
           /\ callers' = [callers EXCEPT
                             ![c].pc = "idle",
                             ![c].log[Len(callers[c].log)] =
                                 [@ EXCEPT !.returned = TRUE,
                                           !.err = IF ok THEN "" ELSE "update failed",
                                           !.ok = ok]]
    /\ UNCHANGED <<taskSpec, taskRun, given, env, maps, arrays, pc, i, initContainers,
                   volumes, podSteps, maxIndicesByResource, placeScripts,
                   placeScriptsInitContainer, consulted, result, units, frameVars,
                   accessed>>

\* The calls of AddReadyAnnotation alone.
NextMarker == \E c \in DOMAIN callers : AddReadyAnnotation(c) \/ UpdatePod(c)

\* MakePod, and AddReadyAnnotation on the unit it returned.
NextMade == Next \/ NextMarker

----------------------------------------------------------------------------
(* The calls checked.  A call is described by its steps with their values; *)
(* InitCall lays the maps and the argument arrays out on the heap.         *)

\* A step as the caller declares it: req is <<>> (a nil Requests map) or
\* <<m>>, args the arguments, spare the spare capacity of their array.
StepDesc(name, script, dir, vms, args, spare, req) ==
    [Name |-> name, Script |-> script, WorkingDir |-> dir, VolumeMounts |-> vms,
     args |-> args, spare |-> spare, req |-> req]

PlainStep(name) == StepDesc(name, "", <<>>, <<>>, <<>>, 0, <<>>)

HasArray(d) == d.args # <<>> \/ d.spare > 0

StepsOf(descs) ==
    [k \in 1..Len(descs) |->
        [Name |-> descs[k].Name,
         Script |-> descs[k].Script,
         WorkingDir |-> descs[k].WorkingDir,
         VolumeMounts |-> descs[k].VolumeMounts,
         Env |-> <<>>,
         Args |-> IF HasArray(descs[k]) THEN [arr |-> k, len |-> Len(descs[k].args)]
                  ELSE NilSlice,
         Requests |-> IF descs[k].req = <<>> THEN Nil ELSE k]]

MapsOf(descs) ==
    [k \in {j \in 1..Len(descs) : descs[j].req # <<>>} |-> descs[k].req[1]]

ArraysOf(descs) ==
    [k \in {j \in 1..Len(descs) : HasArray(descs[j])} |->
        descs[k].args \o [j \in 1..descs[k].spare |-> <<>>]]

TaskRun(name, labels, annotations, templateVolumes) ==
    [Name |-> name, Namespace |-> "default", Labels |-> labels,
     Annotations |-> annotations, PodTemplateVolumes |-> templateVolumes]

PlainTaskRun == TaskRun(<<"run">>, EmptyMap, EmptyMap, <<>>)

Env(creds, secrets, wd, rand, mergeErr) ==
    [creds |-> creds, secretsVolumes |-> secrets, workingDirInit |-> wd,
     rand |-> rand, mergeErr |-> mergeErr]

GoodRandom == [data |-> <<161, 11, 255>>, err |-> FALSE]

\* Every collaborator succeeds, none gives an init container.
PlainEnv == Env("none", <<>>, FALSE, GoodRandom, FALSE)

InitMakePod(descs, sidecars, vols, template, tr, e) ==
    /\ taskSpec = [Steps |-> StepsOf(descs), Sidecars |-> sidecars, Volumes |-> vols,
                   StepTemplate |-> template]
    /\ taskRun = tr
    /\ given = descs
    /\ env = e
    /\ maps = MapsOf(descs)
    /\ arrays = ArraysOf(descs)
    /\ pc = "begin"
    /\ i = 0
    /\ initContainers = <<>>
    /\ volumes = <<>>
    /\ podSteps = <<>>
    /\ maxIndicesByResource = [name \in TrackedResources |-> -1]
    /\ placeScripts = FALSE
    /\ placeScriptsInitContainer = Container(<<>>, [kind |-> "placeScripts", index |-> -1])
    /\ consulted = <<>>
    /\ result = NoResult

\* One invocation of MakePod.
Alone ==
    /\ parked = <<>>
    /\ running = 1
    /\ accessed = <<NoAccess>>

\* Nobody calls AddReadyAnnotation.
NoCallers ==
    /\ units = <<>>
    /\ stored = <<>>
    /\ callers = <<>>

\* A call of MakePod alone.
InitCall(descs, sidecars, vols, template, tr, e) ==
    /\ InitMakePod(descs, sidecars, vols, template, tr, e)
    /\ NoCallers
    /\ Alone

\* The outcomes of the collaborators that let MakePod fail.
FailingEnvs ==
    { Env("err", <<>>, FALSE, GoodRandom, FALSE),
      Env("none", <<>>, FALSE, [data |-> <<161>>, err |-> TRUE], FALSE),
      Env("none", <<>>, FALSE, GoodRandom, TRUE) }

(* Resource requests: every step requests cpu (nothing, or 0..MaxQty) and   *)
(* memory (nothing or 1) in a map or has no map; at most one step has the   *)
(* reserved name of the entrypoint carrier; the step template requests      *)
(* nothing or MaxQty of each resource.                                      *)

Request(cpu, memory) ==
    [name \in (IF cpu >= 0 THEN {ResourceCPU} ELSE {})
                  \cup (IF memory >= 0 THEN {ResourceMemory} ELSE {}) |->
        IF name = ResourceCPU THEN cpu ELSE memory]

RequestChoices ==
    {<<>>} \cup {<<Request(cpu, memory)>> : cpu \in -1..MaxQty, memory \in {-1, 1}}

TemplateChoices ==
    {<<>>, <<[Requests |-> [name \in TrackedResources |-> MaxQty]]>>}

StepNameA == <<"a">>

InitResources ==
    \E n \in 1..MaxSteps :
        \E reqs \in [1..n -> RequestChoices], carrier \in 0..n,
           template \in TemplateChoices, e \in {PlainEnv} \cup FailingEnvs :
            /\ e # PlainEnv => (carrier = 0 /\ template = <<>>
                                 /\ \A k \in 1..n : reqs[k] = <<>>)
            /\ InitCall([k \in 1..n |->
                            StepDesc(IF k = carrier THEN InitContainerName
                                     ELSE StepNameA \o Itoa(k),
                                     "", <<>>, <<>>, <<>>, 0, reqs[k])],
                        <<>>, <<>>, template, PlainTaskRun, e)

SpecResources == InitResources /\ [][Next]_vars

\* The sequences over S of length at most n.
SeqsUpTo(S, n) == UNION {[1..k -> S] : k \in 0..n}

\* n steps, plain but for the one at position at (from 1), which is d.
OneStepAmong(n, at, d) ==
    [k \in 1..n |-> IF k = at THEN d ELSE PlainStep(StepNameA \o Itoa(k))]

(* Mounts: one step of the task declares up to MaxMounts mounts, at paths   *)
(* written cleanly or not, and has a script or none.                        *)

MountPaths ==
    { <<"/", "workspace">>,
      <<"/", "workspace", "/">>,
      <<"/", "builder", "/", ".", "/", "home">>,
      <<"/", "data", "/", "..", "/", "workspace">>,
      <<"/", "data">>,
      <<"/", "workspace", "/", "src">> }

UserMounts == {[Name |-> "user", MountPath |-> path] : path \in MountPaths}

Scripts == {"", "echo hi"}

InitMounts ==
    \E n \in 1..MaxSteps :
        \E at \in 1..n, vms \in SeqsUpTo(UserMounts, MaxMounts), script \in Scripts :
            InitCall(OneStepAmong(n, at,
                         StepDesc(StepNameA \o Itoa(at), script, <<>>, vms, <<>>, 0, <<>>)),
                     <<>>, <<>>, <<>>, PlainTaskRun, PlainEnv)

SpecMounts == InitMounts /\ [][Next]_vars

(* Arguments: one step of the task has up to MaxArgs arguments, any of them *)
(* the redirect flag, in an array with or without spare capacity, and has a *)
(* script or none.                                                          *)

ArgStrings == {EntrypointFlag, <<"cmd">>, <<"x">>}

InitArgs ==
    \E n \in 1..MaxSteps :
        \E at \in 1..n, args \in SeqsUpTo(ArgStrings, MaxArgs), spare \in 0..1,
           script \in Scripts :
            InitCall(OneStepAmong(n, at,
                         StepDesc(StepNameA \o Itoa(at), script, <<>>, <<>>, args, spare, <<>>)),
                     <<>>, <<>>, <<>>, PlainTaskRun, PlainEnv)

SpecArgs == InitArgs /\ [][Next]_vars

(* Assembly: every step has a script or none and a name of its own or the   *)
(* reserved name of the entrypoint carrier; the collaborators give their    *)
(* init containers or not, with a secrets volume or none; the task and the  *)
(* pod template declare volumes, some under one name.                       *)

Volume(name, source) == [Name |-> name, VolumeSource |-> source]

\* The first k of the volumes a task declares under names of their own.
DeclaredVolumes(k) == [j \in 1..k |-> Volume("data-" \o ToString(j), "ConfigMap")]

TaskVolumeChoices ==
    {DeclaredVolumes(k) : k \in 0..MaxVolumes}
        \cup {<<Volume("data-1", "ConfigMap"), Volume("data-1", "ConfigMap")>>}

TemplateVolumeChoices ==
    {<<>>, <<Volume("template", "ConfigMap")>>, <<Volume("data-1", "EmptyDir")>>}

SecretsVolume == Volume("secret-volume", "Secret")

AssemblyEnvs ==
    {Env("none", <<>>, wd, GoodRandom, FALSE) : wd \in BOOLEAN}
        \cup {Env("container", secrets, wd, GoodRandom, FALSE) :
                  secrets \in {<<>>, <<SecretsVolume>>}, wd \in BOOLEAN}
        \cup FailingEnvs

InitAssembly ==
    \E n \in 1..MaxSteps :
        \E scripts \in [1..n -> Scripts], carriers \in SUBSET (1..n),
           vols \in TaskVolumeChoices, templateVols \in TemplateVolumeChoices,
           e \in AssemblyEnvs :
            InitCall([k \in 1..n |->
                         StepDesc(IF k \in carriers THEN InitContainerName
                                  ELSE StepNameA \o Itoa(k),
                                  scripts[k], <<>>, <<>>, <<>>, 0, <<>>)],
                     <<>>, vols, <<>>,
                     TaskRun(<<"run">>, EmptyMap, EmptyMap, templateVols), e)

SpecAssembly == InitAssembly /\ [][Next]_vars

(* Names: the steps are unnamed or declared under short names, a name that  *)
(* starts with the step prefix, the name of an unnamed step's placeholder   *)
(* or names too long for a container, no two of them under one name (the    *)
(* validation of the task sees to that); the sidecars likewise.             *)

LongName(last) == [j \in 1..(maxNameLength - 3) |-> "x"] \o <<last>>

StepNameChoices ==
    { <<>>,
      <<"a">>,
      <<"s", "t", "e", "p", "-", "a">>,
      <<"u", "n", "n", "a", "m", "e", "d", "-", "1">>,
      LongName("y"),
      LongName("z") }

SidecarNameChoices ==
    { <<"a">>, <<"s", "i", "d", "e", "c", "a", "r", "-", "a">>, LongName("y") }

WorkingDirChoices == {<<>>, <<"/", "src">>}

InitNames ==
    \E n \in 1..MaxSteps :
        \E names \in [1..n -> StepNameChoices],
           sidecars \in SeqsUpTo(SidecarNameChoices, MaxSidecars),
           dir \in WorkingDirChoices :
            /\ \A j, k \in 1..n : (j # k /\ names[j] # <<>>) => names[j] # names[k]
            /\ InitCall([k \in 1..n |->
                            StepDesc(names[k], "", IF k = 1 THEN dir ELSE <<>>,
                                     <<>>, <<>>, 0, <<>>)],
                        [k \in 1..Len(sidecars) |->
                            Container(sidecars[k], [kind |-> "sidecar", index |-> k - 1])],
                        <<>>, <<>>, PlainTaskRun, PlainEnv)

SpecNames == InitNames /\ [][Next]_vars

(* Metadata: the TaskRun has any labels and annotations under the keys the  *)
(* compiler sets and a key of its own.                                      *)

MapsOver(keys, values) == UNION {[D -> values] : D \in SUBSET keys}

TaskRunNames == {<<"run">>, <<"other">>}

LabelChoices ==
    MapsOver({ManagedByLabelKey, taskRunLabelKey, "app"}, {<<"custom">>, <<"other">>})

AnnotationChoices ==
    MapsOver({ReadyAnnotation, "note"}, {readyAnnotationValue, <<"x">>})

InitMetadata ==
    \E n \in 1..MaxSteps :
        \E name \in TaskRunNames, labels \in LabelChoices, annotations \in AnnotationChoices :
            InitCall([k \in 1..n |-> PlainStep(StepNameA \o Itoa(k))],
                     <<>>, <<>>, <<>>, TaskRun(name, labels, annotations, <<>>), PlainEnv)

SpecMetadata == InitMetadata /\ [][Next]_vars

(* Failures: the collaborators fail or not, several of them in one call;   *)
(* the random source yields up to three bytes and ends with an error or    *)
(* with io.EOF; the task declares volumes, some under one name.            *)

RandomBytes == <<161, 11, 255>>

RandomSources ==
    {[data |-> SubSeq(RandomBytes, 1, k), err |-> e] : k \in 0..3, e \in BOOLEAN}

ErrorEnvs ==
    {Env(creds, <<>>, FALSE, rand, mergeErr) :
         creds \in {"none", "container", "err"}, rand \in RandomSources,
         mergeErr \in BOOLEAN}

InitErrors ==
    \E n \in 1..MaxSteps :
        \E vols \in TaskVolumeChoices, e \in ErrorEnvs :
            InitCall([k \in 1..n |-> PlainStep(StepNameA \o Itoa(k))],
                     <<>>, vols, <<>>, PlainTaskRun, e)

SpecErrors == InitErrors /\ [][Next]_vars

(* A fresh unit: the TaskRun has any annotations under the readiness key   *)
(* and a key of its own, and the caller of MakePod calls                   *)
(* AddReadyAnnotation with the unit it got.                                *)

\* A caller that holds p and has not called yet.
Caller(p) == [p |-> p, pc |-> "idle", log |-> <<>>]

InitFresh ==
    \E n \in 1..MaxSteps :
        \E name \in TaskRunNames, annotations \in AnnotationChoices :
            /\ InitMakePod([k \in 1..n |-> PlainStep(StepNameA \o Itoa(k))],
                           <<>>, <<>>, <<>>, TaskRun(name, EmptyMap, annotations, <<>>),
                           PlainEnv)
            /\ units = <<>>
            /\ stored = <<>>
            /\ callers = <<Caller(Returned)>>
            /\ Alone

SpecFresh == InitFresh /\ [][NextMade]_vars

(* Live units: the store holds a unit with any annotations under the       *)
(* readiness key and a key of its own, or with a nil map; up to MaxCallers *)
(* callers hold a copy of it each and call AddReadyAnnotation on their     *)
(* copy, up to MaxCalls times.  MakePod is not called.                     *)

AnnotationValues == {readyAnnotationValue, <<>>, <<"x">>}

UnitChoices ==
    {<<>>} \cup {<<m>> : m \in MapsOver({ReadyAnnotation, "note"}, AnnotationValues)}

InitMarker ==
    \E n \in 1..MaxCallers, u \in UnitChoices :
        /\ InitMakePod(<<PlainStep(StepNameA)>>, <<>>, <<>>, <<>>, PlainTaskRun, PlainEnv)
        /\ units = [c \in 1..n |-> u]
        /\ stored = u
        /\ callers = [c \in 1..n |-> Caller(c)]
        /\ Alone

SpecMarker == InitMarker /\ [][NextMarker]_vars

(* A shared TaskSpec: two invocations of MakePod, for two TaskRuns, get    *)
(* the same TaskSpec value, so the same Requests maps and the same backing *)
(* arrays of the arguments.  Every step has no requests map or one with a  *)
(* cpu request; the first step has a script or none and arguments with or  *)
(* without the redirect flag and spare capacity; the last step may have    *)
(* the reserved name of the entrypoint carrier.                            *)

SharedRequestChoices == {<<>>, <<Request(1, -1)>>, <<Request(MaxQty, -1)>>}

SharedArgChoices == {<<>>, <<EntrypointFlag, <<"cmd">> >>}

OtherTaskRun == TaskRun(<<"other">>, EmptyMap, EmptyMap, <<>>)

\* The locals of an invocation that has not begun, on the heap of descs.
FrameAtCall(tr, e, id, descs) ==
    Frame(tr, e, "begin", 0, <<>>, <<>>, <<>>, [name \in TrackedResources |-> -1], FALSE,
          Container(<<>>, [kind |-> "placeScripts", index |-> -1]), <<>>, NoResult, id,
          MapsOf(descs), ArraysOf(descs))

InitShared ==
    \E n \in 1..MaxSteps :
        \E reqs \in [1..n -> SharedRequestChoices], args \in SharedArgChoices,
           spare \in 0..1, script \in Scripts, carrier \in BOOLEAN :
            LET descs == [k \in 1..n |->
                             StepDesc(IF carrier /\ k = n /\ n > 1 THEN InitContainerName
                                      ELSE StepNameA \o Itoa(k),
                                      IF k = 1 THEN script ELSE "", <<>>, <<>>,
                                      IF k = 1 THEN args ELSE <<>>,
                                      IF k = 1 THEN spare ELSE 0, reqs[k])]
            IN  /\ InitMakePod(descs, <<>>, <<>>, <<>>, PlainTaskRun, PlainEnv)
                /\ NoCallers
                /\ parked = <<FrameAtCall(OtherTaskRun, PlainEnv, 2, descs)>>
                /\ running = 1
                /\ accessed = <<NoAccess, NoAccess>>

SpecConcurrent == InitShared /\ [][NextConcurrent]_vars

SpecTwice == InitShared /\ [][NextTwice]_vars

(* Classification: every step is unnamed or declared under a name of its   *)
(* own, the reserved name of the entrypoint carrier or a name that starts  *)
(* with it; the sidecars are declared under a name of their own or the     *)
(* reserved name; there is a step template or none.                        *)

NearReservedName == InitContainerName \o <<"-", "2">>

ClassifiedNames(k) ==
    {<<>>, StepNameA \o Itoa(k), InitContainerName, NearReservedName}

ClassifiedSidecarNames == {StepNameA, InitContainerName}

InitClassify ==
    \E n \in 1..MaxSteps :
        \E names \in [1..n -> UNION {ClassifiedNames(k) : k \in 1..n}],
           sidecars \in SeqsUpTo(ClassifiedSidecarNames, MaxSidecars),
           template \in TemplateChoices :
            /\ \A k \in 1..n : names[k] \in ClassifiedNames(k)
            /\ InitCall([k \in 1..n |-> PlainStep(names[k])],
                        [k \in 1..Len(sidecars) |->
                            Container(sidecars[k], [kind |-> "sidecar", index |-> k - 1])],
                        <<>>, template, PlainTaskRun, PlainEnv)

SpecClassify == InitClassify /\ [][Next]_vars

Init ==
    \/ InitResources \/ InitMounts \/ InitArgs \/ InitAssembly \/ InitNames \/ InitMetadata
    \/ InitErrors \/ InitClassify

Spec == Init /\ [][Next]_vars

----------------------------------------------------------------------------
(* The unit MakePod returned, as the claims read it. *)

Done == pc = "done"

Succeeded == Done /\ result.pod # <<>>

Pod == result.pod[1]

\* The Go indices of the steps of the task.
StepIndices == 0..(Len(given) - 1)

AllContainers == Pod.InitContainers \o Pod.Containers

IsStep(c, idx) == c.origin = [kind |-> "step", index |-> idx]

\* The container compiled from step idx.
StepContainer(idx) ==
    AllContainers[CHOOSE k \in 1..Len(AllContainers) : IsStep(AllContainers[k], idx)]

\* Whether step idx was put in the main container list.
InMainList(idx) == \E k \in 1..Len(Pod.Containers) : IsStep(Pod.Containers[k], idx)

InInitList(idx) == \E k \in 1..Len(Pod.InitContainers) : IsStep(Pod.InitContainers[k], idx)

\* Whether container c has an entry for the resource in its requests.
HasRequest(c, name) == c.Requests # Nil /\ name \in DOMAIN maps[c.Requests]

\* The request of container c for the resource; no entry requests nothing.
RequestOf(c, name) == IF HasRequest(c, name) THEN maps[c.Requests][name] ELSE zeroQty

GivenHas(idx, name) ==
    given[idx + 1].req # <<>> /\ name \in DOMAIN given[idx + 1].req[1]

\* The request step idx was declared with.
GivenRequest(idx, name) ==
    IF GivenHas(idx, name) THEN given[idx + 1].req[1][name] ELSE zeroQty

\* The earliest step among those declared with the greatest request for the
\* resource, -1 when no step requests more than zero.
EarliestMax(name) ==
    IF \A idx \in StepIndices : GivenRequest(idx, name) <= zeroQty THEN -1
    ELSE CHOOSE e \in StepIndices :
             /\ \A idx \in StepIndices : GivenRequest(idx, name) <= GivenRequest(e, name)
             /\ \A idx \in StepIndices :
                    GivenRequest(idx, name) = GivenRequest(e, name) => e <= idx

NonZeroSteps(name, among) ==
    {idx \in among : RequestOf(StepContainer(idx), name) # zeroQty}

MainListSteps == {idx \in StepIndices : InMainList(idx)}

----------------------------------------------------------------------------
(* C1 as stated: for every tracked resource at most one step of the unit   *)
(* carries a non-zero request, the earliest step declared with the         *)
(* greatest request keeps it and every other step requests zero.           *)
C1_AtMostOneStepRequests ==
    Succeeded =>
        \A name \in TrackedResources :
            /\ Cardinality(NonZeroSteps(name, StepIndices)) <= 1
            /\ \A idx \in StepIndices :
                   RequestOf(StepContainer(idx), name) =
                       IF idx = EarliestMax(name) THEN GivenRequest(idx, name) ELSE zeroQty

(* C1 amended: for every tracked resource the earliest step declared with  *)
(* the greatest request keeps it, every other step of the main container   *)
(* list requests zero, so at most one step of the main container list      *)
(* carries a non-zero request; a step moved to the init containers keeps   *)
(* the request it was declared with.                                       *)
C1_MaxStepKeepsRequest ==
    Succeeded =>
        \A name \in TrackedResources :
            /\ Cardinality(NonZeroSteps(name, MainListSteps)) <= 1
            /\ \A idx \in StepIndices :
                   RequestOf(StepContainer(idx), name) =
                       IF idx = EarliestMax(name) \/ InInitList(idx)
                       THEN GivenRequest(idx, name) ELSE zeroQty

\* Two steps of the main container list were declared with the same, greatest
\* cpu request; the earlier kept it and the later requests zero.
C1_Witness ==
    /\ Succeeded
    /\ \E e, l \in MainListSteps :
           /\ e < l
           /\ EarliestMax(ResourceCPU) = e
           /\ GivenRequest(l, ResourceCPU) = GivenRequest(e, ResourceCPU)
           /\ RequestOf(StepContainer(e), ResourceCPU) = GivenRequest(e, ResourceCPU)
           /\ RequestOf(StepContainer(l), ResourceCPU) = zeroQty

(* C2 as stated: for every tracked resource, every step of the task whose  *)
(* index is not the tracked maximum index has an entry of zero for the     *)
(* resource in the unit, in the main container list or among the init      *)
(* containers.                                                             *)
C2_EveryNonMaxStepZeroed ==
    Succeeded =>
        \A name \in TrackedResources, idx \in StepIndices :
            idx # maxIndicesByResource[name] =>
                /\ HasRequest(StepContainer(idx), name)
                /\ RequestOf(StepContainer(idx), name) = zeroQty

(* C2 amended: for every tracked resource, every step of the main          *)
(* container list whose index is not the tracked maximum index has an      *)
(* entry of zero for the resource in the unit (its map created when it had *)
(* none); without a request for the resource this holds of all of them.    *)
C2_NonMaxMainStepZeroed ==
    Succeeded =>
        \A name \in TrackedResources, idx \in MainListSteps :
            idx # maxIndicesByResource[name] =>
                /\ HasRequest(StepContainer(idx), name)
                /\ RequestOf(StepContainer(idx), name) = zeroQty

\* A step declared without a requests map is in the main container list with
\* a map that requests zero of a resource no step requests.
C2_Witness ==
    /\ Succeeded
    /\ \E idx \in MainListSteps :
           /\ given[idx + 1].req = <<>>
           /\ maxIndicesByResource[ResourceEphemeralStorage] = -1
           /\ HasRequest(StepContainer(idx), ResourceEphemeralStorage)
           /\ \E other \in StepIndices : maxIndicesByResource[ResourceCPU] = other

----------------------------------------------------------------------------
\* The mounts of a step's container that are not the scripts mount, which
\* lines 200 appends to a step with a script.
MountsBeforeScript(idx) ==
    LET vms == StepContainer(idx).VolumeMounts
    IN  IF given[idx + 1].Script # "" THEN SubSeq(vms, 1, Len(vms) - 1) ELSE vms

\* Whether the step declares a mount whose cleaned path is the implicit
\* mount's.
DeclaresMountAt(idx, imp) ==
    \E k \in 1..Len(given[idx + 1].VolumeMounts) :
        Clean(given[idx + 1].VolumeMounts[k].MountPath) = imp.MountPath

\* The number of positions of seq that hold x.
Count(seq, x) == Cardinality({k \in 1..Len(seq) : seq[k] = x})

ImplicitMounts == {implicitVolumeMounts[k] : k \in 1..Len(implicitVolumeMounts)}

(* C3: for every step and every implicit mount, if the step declares a     *)
(* mount whose cleaned path is the implicit mount's path the implicit      *)
(* mount is not added, otherwise it is added once, after the step's own    *)
(* mounts, which are kept unchanged and in order.                          *)
C3_ImplicitMountsMerged ==
    Succeeded =>
        \A idx \in StepIndices :
            LET own == given[idx + 1].VolumeMounts
                out == MountsBeforeScript(idx)
                added == SubSeq(out, Len(own) + 1, Len(out))
            IN  /\ Len(out) >= Len(own)
                /\ SubSeq(out, 1, Len(own)) = own
                /\ \A k \in 1..Len(added) : added[k] \in ImplicitMounts
                /\ \A imp \in ImplicitMounts :
                       Count(added, imp) = IF DeclaresMountAt(idx, imp) THEN 0 ELSE 1
                /\ \A j, k \in 1..Len(added) :
                       (j < k /\ added[j] = implicitVolumeMounts[2]) =>
                           added[k] # implicitVolumeMounts[1]

\* A step declares a mount at "/workspace/", which is not written cleanly: its
\* container has that mount, not the implicit workspace mount, and has the
\* implicit home mount.
C3_Witness ==
    /\ Succeeded
    /\ \E idx \in StepIndices :
           /\ given[idx + 1].VolumeMounts =
                  <<[Name |-> "user", MountPath |-> <<"/", "workspace", "/">>]>>
           /\ MountsBeforeScript(idx) =
                  <<[Name |-> "user", MountPath |-> <<"/", "workspace", "/">>],
                    implicitVolumeMounts[2]>>

----------------------------------------------------------------------------
SomeStepHasScript == \E k \in 1..Len(given) : given[k].Script # ""

PlaceScriptsName == RestrictLengthWithRandomSuffix(<<"place-scripts">>)

\* The positions of the place-scripts container in a list of containers.
PlaceScriptsAt(containers) ==
    {k \in 1..Len(containers) : containers[k].Name = PlaceScriptsName}

(* C4: the unit has exactly one script-placement init container and        *)
(* exactly one script-placement volume if some step has a script, however  *)
(* many have one, and neither if no step has a script.                     *)
C4_OneScriptPlacement ==
    Succeeded =>
        /\ Cardinality(PlaceScriptsAt(Pod.InitContainers)) =
               IF SomeStepHasScript THEN 1 ELSE 0
        /\ PlaceScriptsAt(Pod.Containers) = {}
        /\ Count(Pod.Volumes, scriptsVolume) = IF SomeStepHasScript THEN 1 ELSE 0

\* Two steps have a script, a later one has none; the unit has one
\* script-placement container, which places both scripts, and one volume.
C4_Witness ==
    /\ Succeeded
    /\ Cardinality({k \in 1..Len(given) : given[k].Script # ""}) >= 2
    /\ given[Len(given)].Script = ""
    /\ Cardinality(PlaceScriptsAt(Pod.InitContainers)) = 1
    /\ Count(Pod.Volumes, scriptsVolume) = 1
    /\ \E k \in PlaceScriptsAt(Pod.InitContainers) :
           Count(SliceElems(arrays, Pod.InitContainers[k].Args)[2], "echo hi") >= 2

----------------------------------------------------------------------------
GivenArgs(idx) == given[idx + 1].args

OutArgs(idx) == SliceElems(arrays, StepContainer(idx).Args)

HasFlag(args) == \E k \in 1..Len(args) : args[k] = EntrypointFlag

\* The position of the first redirect flag of args.
FirstFlag(args) ==
    CHOOSE k \in 1..Len(args) :
        args[k] = EntrypointFlag /\ \A j \in 1..(k - 1) : args[j] # EntrypointFlag

StepsWithScript == {idx \in StepIndices : given[idx + 1].Script # ""}

(* C5 as stated: a step with a script and without the redirect flag gets   *)
(* the script's path appended to its arguments; with the flag, the         *)
(* argument after the flag is replaced by the path and the other           *)
(* arguments stay as they are.                                             *)
C5_PathReplacesOneArgument ==
    Succeeded =>
        \A idx \in StepsWithScript :
            LET args == GivenArgs(idx)
                f == FirstFlag(args)
            IN  OutArgs(idx) =
                    IF HasFlag(args) /\ f < Len(args)
                    THEN [args EXCEPT ![f + 1] = TmpFile(idx)]
                    ELSE Append(args, TmpFile(idx))

(* C5 amended: a step with a script and without the redirect flag gets the *)
(* script's path appended to its arguments; with the flag, the arguments   *)
(* up to and including the first flag are kept, the path follows the flag  *)
(* and every argument written after the flag is dropped.                   *)
C5_PathFollowsFirstFlag ==
    Succeeded =>
        \A idx \in StepsWithScript :
            LET args == GivenArgs(idx)
            IN  OutArgs(idx) =
                    IF HasFlag(args)
                    THEN Append(SubSeq(args, 1, FirstFlag(args)), TmpFile(idx))
                    ELSE Append(args, TmpFile(idx))

\* A step with a script was declared with the flag and two arguments after
\* it: its container has the flag and the path.
C5_Witness ==
    /\ Succeeded
    /\ \E idx \in StepsWithScript :
           /\ GivenArgs(idx) = <<EntrypointFlag, <<"cmd">>, <<"x">>>>
           /\ OutArgs(idx) = <<EntrypointFlag, TmpFile(idx)>>

----------------------------------------------------------------------------
\* The container compiled from the sidecar at Go index idx.
SidecarContainer(idx) ==
    Pod.Containers[CHOOSE k \in 1..Len(Pod.Containers) :
                       Pod.Containers[k].origin = [kind |-> "sidecar", index |-> idx]]

SidecarIndices == 0..(Len(taskSpec.Sidecars) - 1)

GivenSidecarName(idx) == taskSpec.Sidecars[idx + 1].Name

(* C6 as stated: for every step, the name of its container with the step   *)
(* prefix trimmed is the name the step was declared with, and for every    *)
(* sidecar the name of its container with the sidecar prefix trimmed is    *)
(* the name the sidecar was declared with; unnamed steps and names of any  *)
(* length included.                                                        *)
C6_TrimInvertsRename ==
    Succeeded =>
        /\ \A idx \in StepIndices :
               TrimContainerNamePrefix(StepContainer(idx).Name) = given[idx + 1].Name
        /\ \A idx \in SidecarIndices :
               TrimSidecarNamePrefix(SidecarContainer(idx).Name) = GivenSidecarName(idx)

(* C6 amended: the round trip holds for every step declared with a name    *)
(* (not for an unnamed step, whose container is named after its index)     *)
(* and for every sidecar, provided the length restriction leaves the       *)
(* prefix followed by the declared name as it is; names that start with    *)
(* the prefix included.                                                    *)
C6_TrimInvertsRenameOfShortNames ==
    Succeeded =>
        /\ \A idx \in StepIndices :
               LET name == given[idx + 1].Name
               IN  (name # <<>> /\ RestrictLength(containerPrefix \o name) = containerPrefix \o name) =>
                       TrimContainerNamePrefix(StepContainer(idx).Name) = name
        /\ \A idx \in SidecarIndices :
               LET name == GivenSidecarName(idx)
               IN  RestrictLength(sidecarPrefix \o name) = sidecarPrefix \o name =>
                       TrimSidecarNamePrefix(SidecarContainer(idx).Name) = name

\* A step declared as "step-a" and a sidecar declared as "sidecar-a" are in
\* the unit under names that trim back to these.
C6_Witness ==
    /\ Succeeded
    /\ \E idx \in StepIndices :
           /\ given[idx + 1].Name = containerPrefix \o <<"a">>
           /\ StepContainer(idx).Name = containerPrefix \o containerPrefix \o <<"a">>
           /\ TrimContainerNamePrefix(StepContainer(idx).Name) = containerPrefix \o <<"a">>
    /\ \E idx \in SidecarIndices :
           /\ GivenSidecarName(idx) = sidecarPrefix \o <<"a">>
           /\ TrimSidecarNamePrefix(SidecarContainer(idx).Name) = sidecarPrefix \o <<"a">>

(* C7: in the unit every container compiled from a step has a name that is *)
(* not empty and is the name of no other container of the unit, and a      *)
(* working directory that is not empty, "/workspace" when the step         *)
(* declared none.                                                          *)
C7_StepNamesUnique ==
    Succeeded =>
        \A k \in 1..Len(AllContainers) :
            LET c == AllContainers[k]
            IN  c.origin.kind = "step" =>
                    /\ c.Name # <<>>
                    /\ \A j \in 1..Len(AllContainers) :
                           j # k => AllContainers[j].Name # c.Name
                    /\ c.WorkingDir # <<>>
                    /\ given[c.origin.index + 1].WorkingDir = <<>> =>
                           c.WorkingDir = workspaceDir

----------------------------------------------------------------------------
Origins(containers) == [k \in 1..Len(containers) |-> containers[k].origin]

\* The origins of the init containers the collaborators gave, in the order of
\* lines 116-125.
CollaboratorOrigins ==
    (IF env.creds = "container" THEN <<[kind |-> "creds", index |-> -1]>> ELSE <<>>)
        \o (IF env.workingDirInit THEN <<[kind |-> "workingDir", index |-> -1]>> ELSE <<>>)

\* The steps declared under the reserved name, in the order of declaration.
CarrierOrigins ==
    LET carriers == SelectSeq([k \in 1..Len(given) |-> k],
                              LAMBDA k : given[k].Name = InitContainerName)
    IN  [j \in 1..Len(carriers) |-> [kind |-> "step", index |-> carriers[j] - 1]]

PlaceScriptsOrigin ==
    IF SomeStepHasScript THEN <<[kind |-> "placeScripts", index |-> -1]>> ELSE <<>>

(* C8 as stated: the init containers of the unit are, in this order, the   *)
(* credentials init container if there is one, the working directory init  *)
(* container if there is one, the script-placement container if a step has *)
(* a script, and the steps moved to the init containers in the order of    *)
(* their declaration.                                                      *)
C8_PlaceScriptsBeforeCarriers ==
    Succeeded =>
        Origins(Pod.InitContainers) =
            CollaboratorOrigins \o PlaceScriptsOrigin \o CarrierOrigins

(* C8 amended: the init containers of the unit are, in this order, the     *)
(* credentials init container if there is one, the working directory init  *)
(* container if there is one, the steps moved to the init containers in    *)
(* the order of their declaration, and last the script-placement container *)
(* if a step has a script.                                                 *)
C8_PlaceScriptsAfterCarriers ==
    Succeeded =>
        Origins(Pod.InitContainers) =
            CollaboratorOrigins \o CarrierOrigins \o PlaceScriptsOrigin

\* Both collaborators gave a container, two steps were moved to the init
\* containers and a step has a script: the unit has five init containers, the
\* script-placement container last.
C8_Witness ==
    /\ Succeeded
    /\ Len(CollaboratorOrigins) = 2
    /\ Len(CarrierOrigins) = 2
    /\ Len(Pod.InitContainers) = 5
    /\ Pod.InitContainers[5].Name = PlaceScriptsName

----------------------------------------------------------------------------
ScriptsVolumeIfAny == IF SomeStepHasScript THEN <<scriptsVolume>> ELSE <<>>

(* C9 as stated: the volumes of the unit are, in this order, the volumes   *)
(* the task declares, the volumes of the pod template, the two implicit    *)
(* volumes and the scripts volume if and only if a step has a script, with *)
(* no other volume before or between them.                                 *)
C9_DeclaredVolumesFirst ==
    Succeeded =>
        Pod.Volumes = taskSpec.Volumes \o taskRun.PodTemplateVolumes
                          \o implicitVolumes \o ScriptsVolumeIfAny

(* C9 amended: the volumes of the unit are, in this order, the secrets     *)
(* volumes of the credentials init container if the collaborator gave one, *)
(* the volumes the task declares, the volumes of the pod template, the two *)
(* implicit volumes and the scripts volume if and only if a step has a     *)
(* script, with no other volume before or between them.                    *)
C9_SecretsVolumesFirst ==
    Succeeded =>
        Pod.Volumes =
            (IF env.creds = "container" THEN env.secretsVolumes ELSE <<>>)
                \o taskSpec.Volumes \o taskRun.PodTemplateVolumes
                \o implicitVolumes \o ScriptsVolumeIfAny

\* The credentials init container came with a secrets volume, the task and the
\* pod template declare volumes and a step has a script: the secrets volume is
\* the first volume of the unit and the scripts volume the last.
C9_Witness ==
    /\ Succeeded
    /\ env.secretsVolumes # <<>>
    /\ Len(taskSpec.Volumes) = MaxVolumes
    /\ taskRun.PodTemplateVolumes # <<>>
    /\ Pod.Volumes[1] = SecretsVolume
    /\ Pod.Volumes[Len(Pod.Volumes)] = scriptsVolume
    /\ Len(Pod.Volumes) = MaxVolumes + 5

----------------------------------------------------------------------------
(* C10: the labels of the unit have every key of the TaskRun's labels,     *)
(* with the TaskRun's value but for the taskRun key; the managed-by label  *)
(* is the TaskRun's if it has one and "tekton-pipelines" otherwise; the    *)
(* taskRun label is the TaskRun's name whatever the TaskRun's labels say.  *)
C10_Labels ==
    Succeeded =>
        /\ \A k \in DOMAIN taskRun.Labels :
               /\ k \in DOMAIN Pod.Labels
               /\ k # taskRunLabelKey => Pod.Labels[k] = taskRun.Labels[k]
        /\ Pod.Labels[ManagedByLabelKey] =
               IF ManagedByLabelKey \in DOMAIN taskRun.Labels
               THEN taskRun.Labels[ManagedByLabelKey] ELSE ManagedByLabelValue
        /\ Pod.Labels[taskRunLabelKey] = taskRun.Name
        /\ DOMAIN Pod.Labels =
               (DOMAIN taskRun.Labels) \cup {ManagedByLabelKey, taskRunLabelKey}

\* The TaskRun "run" is labelled managed-by "custom" and taskRun "other": the
\* unit is labelled managed-by "custom" and taskRun "run".
C10_Witness ==
    /\ Succeeded
    /\ taskRun.Name = <<"run">>
    /\ ManagedByLabelKey \in DOMAIN taskRun.Labels
    /\ taskRunLabelKey \in DOMAIN taskRun.Labels
    /\ taskRun.Labels[ManagedByLabelKey] = <<"custom">>
    /\ taskRun.Labels[taskRunLabelKey] = <<"other">>
    /\ Pod.Labels[ManagedByLabelKey] = <<"custom">>
    /\ Pod.Labels[taskRunLabelKey] = <<"run">>

----------------------------------------------------------------------------
\* The calls of caller c that have returned.
ReturnedCalls(c) == {k \in 1..Len(callers[c].log) : callers[c].log[k].returned}

\* The calls of caller c that called the update function.
UpdateCalls(c) == {k \in 1..Len(callers[c].log) : callers[c].log[k].update}

\* Whether annotations a (<<>> or <<m>>) carry the readiness marker.
ReadyIn(a) ==
    /\ a # <<>>
    /\ ReadyAnnotation \in DOMAIN a[1]
    /\ a[1][ReadyAnnotation] = readyAnnotationValue

(* C11: the unit MakePod returns has the readiness key with the empty      *)
(* value whatever the TaskRun's annotations are, and every other           *)
(* annotation of the TaskRun with its value and no more; the first         *)
(* AddReadyAnnotation on it calls the update function, once.               *)
C11_FreshUnitNotReady ==
    Succeeded =>
        /\ callers[1].log = <<>> =>
               /\ DOMAIN Pod.Annotations = DOMAIN taskRun.Annotations \cup {ReadyAnnotation}
               /\ Pod.Annotations[ReadyAnnotation] = <<>>
               /\ \A k \in DOMAIN taskRun.Annotations \ {ReadyAnnotation} :
                      Pod.Annotations[k] = taskRun.Annotations[k]
        /\ callers[1].log # <<>> =>
               /\ 1 \in UpdateCalls(1)
               /\ callers[1].log[1].before[1][ReadyAnnotation] = <<>>

\* The TaskRun sets the readiness key to "READY" and a key of its own; the
\* first AddReadyAnnotation on the unit has called the update function and
\* returned.
C11_Witness ==
    /\ Succeeded
    /\ ReadyAnnotation \in DOMAIN taskRun.Annotations
    /\ taskRun.Annotations[ReadyAnnotation] = readyAnnotationValue
    /\ "note" \in DOMAIN taskRun.Annotations
    /\ Pod.Annotations["note"] = taskRun.Annotations["note"]
    /\ 1 \in ReturnedCalls(1) \cap UpdateCalls(1)
    /\ Cardinality(UpdateCalls(1)) = 1

----------------------------------------------------------------------------
\* The collaborators in the order MakePod consults them.
Collaborators ==
    <<"CredsInit", "WorkingDirInit", "ValidateVolumes", "randReader",
      "MergeStepsWithStepTemplate">>

\* Whether the volumes MakePod collected have two of one name.
SomeVolumeNameTwice ==
    \E j, k \in 1..Len(volumes) : j < k /\ volumes[j].Name = volumes[k].Name

\* Whether the random source ends with an error before its third byte.
RandomSourceFails == env.rand.err /\ Len(env.rand.data) < 3

\* The position in Collaborators of the first collaborator that fails in
\* this call, 0 when none does.
FirstFailure ==
    IF env.creds = "err" THEN 1
    ELSE IF SomeVolumeNameTwice THEN 3
    ELSE IF RandomSourceFails THEN 4
    ELSE IF env.mergeErr THEN 5
    ELSE 0

ErrorOf(k) ==
    IF k = 1 THEN "creds-init"
    ELSE IF k = 3 THEN "duplicate volume name"
    ELSE IF k = 4 THEN "random source"
    ELSE IF k = 5 THEN "merge"
    ELSE ""

(* C12: MakePod returns a unit and no error, or an error and no unit; the  *)
(* error is that of the first collaborator that fails, in the order        *)
(* credentials-init, volume validation, random source, step-template       *)
(* merge, and no collaborator after that one is consulted.                 *)
C12_FirstErrorOnly ==
    Done =>
        /\ (result.pod # <<>>) = (result.err = "")
        /\ result.err = ErrorOf(FirstFailure)
        /\ consulted = SubSeq(Collaborators, 1,
                                IF FirstFailure = 0 THEN Len(Collaborators) ELSE FirstFailure)

\* Two volumes have one name, the random source fails and the merge would
\* fail: the error is the validation's and the later two were not consulted.
C12_Witness ==
    /\ Done
    /\ SomeVolumeNameTwice
    /\ RandomSourceFails
    /\ env.mergeErr
    /\ result = Failed("duplicate volume name")
    /\ consulted[Len(consulted)] = "ValidateVolumes"

(* C13: whenever the random source does not supply three bytes, ending     *)
(* with an error or after 0, 1 or 2 bytes, MakePod returns an error and no *)
(* unit; the name of every unit returned is the TaskRun's name, "-pod-"    *)
(* and six hexadecimal digits.                                             *)
C13_RandomExhaustionFatal ==
    Done =>
        /\ Len(env.rand.data) < 3 => (result.pod = <<>> /\ result.err # "")
        /\ result.pod # <<>> =>
               LET name == result.pod[1].Name
                   n == Len(taskRun.Name)
               IN  /\ Len(name) = n + 7
                   /\ SubSeq(name, 1, n + 1) = taskRun.Name \o <<"-pod-">>
                   /\ \A k \in (n + 2)..(n + 7) :
                          \E d \in 1..Len(HexDigits) : name[k] = HexDigits[d]

----------------------------------------------------------------------------
\* The callers of AddReadyAnnotation.
Callers == DOMAIN callers

\* The log entry of the k-th call of caller c.
Call(c, k) == callers[c].log[k]

(* C14: a call of AddReadyAnnotation calls the update function if and only *)
(* if the unit's readiness annotation is not "READY" when the call is made *)
(* (a nil map, no key, the empty or another value are not "READY"); a call *)
(* on a marked unit returns no error; the calls on a unit that starts      *)
(* without the marker call the update function once in total.              *)
C14_UpdateIffNotReady ==
    \A c \in Callers :
        /\ \A k \in 1..Len(callers[c].log) :
               /\ Call(c, k).update = ~ReadyIn(Call(c, k).before)
               /\ ReadyIn(Call(c, k).before) =>
                      (Call(c, k).returned /\ Call(c, k).err = "")
        /\ (callers[c].log # <<>> /\ ~ReadyIn(Call(c, 1).before)) =>
               Cardinality(UpdateCalls(c)) = 1

\* A unit with a nil map of annotations was marked in two calls that both
\* returned: the first called the update function, the second did not and
\* returned no error.
C14_Witness ==
    \E c \in Callers :
        /\ ReturnedCalls(c) = {1, 2}
        /\ Call(c, 1).before = <<>>
        /\ Call(c, 1).update
        /\ ~Call(c, 2).update
        /\ Call(c, 2).err = ""

----------------------------------------------------------------------------
\* The step of the caller's TaskSpec at Go index idx.
CallerStep(idx) == taskSpec.Steps[idx + 1]

\* The arguments of the step as the caller's slice shows them.
CallerArgs(idx) == SliceElems(arrays, CallerStep(idx).Args)

\* Whether the requests of the caller's step are those it was declared with.
RequestsAsGiven(idx) ==
    IF given[idx + 1].req = <<>> THEN CallerStep(idx).Requests = Nil
    ELSE /\ CallerStep(idx).Requests # Nil
         /\ maps[CallerStep(idx).Requests] = given[idx + 1].req[1]

(* C15: after a call of MakePod, failed or not, every step of the caller's *)
(* TaskSpec has the arguments, the mounts, the environment and the         *)
(* requests it had before the call, also a step with a requests map and a  *)
(* step whose arguments have spare capacity.                               *)
C15_InputsUnchanged ==
    Done =>
        \A idx \in StepIndices :
            /\ CallerArgs(idx) = given[idx + 1].args
            /\ CallerStep(idx).VolumeMounts = given[idx + 1].VolumeMounts
            /\ CallerStep(idx).Env = <<>>
            /\ RequestsAsGiven(idx)

----------------------------------------------------------------------------
\* The invocations of MakePod.
Invocations == DOMAIN accessed

\* The locations invocation a writes and invocation b reads or writes.
SharedMaps(a, b) ==
    accessed[a].mapWrites \cap (accessed[b].mapReads \cup accessed[b].mapWrites)

SharedArrays(a, b) ==
    accessed[a].arrayWrites \cap (accessed[b].arrayReads \cup accessed[b].arrayWrites)

\* A container by its values on heaps hm and ha.
ContainerView(c, hm, ha) ==
    [Name |-> c.Name, Args |-> SliceElems(ha, c.Args), Env |-> c.Env,
     VolumeMounts |-> c.VolumeMounts, WorkingDir |-> c.WorkingDir,
     Requests |-> IF c.Requests = Nil THEN <<>> ELSE <<hm[c.Requests]>>]

\* The containers of a unit by their values.
UnitView(unit, hm, ha) ==
    [InitContainers |->
         [k \in 1..Len(unit.InitContainers) |-> ContainerView(unit.InitContainers[k], hm, ha)],
     Containers |->
         [k \in 1..Len(unit.Containers) |-> ContainerView(unit.Containers[k], hm, ha)],
     Volumes |-> unit.Volumes]

\* Whether both invocations have returned a unit.
BothSucceeded ==
    /\ Succeeded
    /\ parked # <<>>
    /\ parked[1].pc = "done"
    /\ parked[1].result.pod # <<>>

(* C16: of two invocations of MakePod that run concurrently on one         *)
(* TaskSpec, neither writes an entry of a Requests map or an element of an *)
(* Args array that the other reads or writes, and both return what they    *)
(* return alone: units with the same containers.                           *)
C16_NoSharedMutableState ==
    /\ \A a, b \in Invocations :
           a # b => (SharedMaps(a, b) = {} /\ SharedArrays(a, b) = {})
    /\ BothSucceeded =>
           UnitView(Pod, maps, arrays) = UnitView(parked[1].result.pod[1], maps, arrays)

----------------------------------------------------------------------------
\* The name line 216 compares a step's name with.
ReservedName == RestrictLength(containerPrefix \o InitContainerName)

\* The name step idx has after lines 206-210.
PostRenameName(idx) == StepName(given[idx + 1].Name, idx)

StepOrigin(idx) == [kind |-> "step", index |-> idx]

\* The steps whose name after the renaming is not the reserved name, in the
\* order of declaration.
OtherStepOrigins ==
    LET others == SelectSeq([k \in 1..Len(given) |-> k - 1],
                            LAMBDA idx : PostRenameName(idx) # ReservedName)
    IN  [j \in 1..Len(others) |-> StepOrigin(others[j])]

\* The sidecars in the order of declaration.
SidecarOrigins ==
    [k \in 1..Len(taskSpec.Sidecars) |-> [kind |-> "sidecar", index |-> k - 1]]

(* C17: a step whose name after the renaming is the reserved name of the   *)
(* entrypoint carrier is among the init containers, once, and not in the   *)
(* main container list; every other step is in the main container list,    *)
(* once, and not among the init containers; the main container list is     *)
(* those steps in the order of declaration and then the sidecars in the    *)
(* order of declaration.                                                   *)
C17_CarriersAreInitContainers ==
    Succeeded =>
        /\ \A idx \in StepIndices :
               LET inInit == Count(Origins(Pod.InitContainers), StepOrigin(idx))
                   inMain == Count(Origins(Pod.Containers), StepOrigin(idx))
               IN  IF PostRenameName(idx) = ReservedName
                   THEN inInit = 1 /\ inMain = 0
                   ELSE inInit = 0 /\ inMain = 1
        /\ \A idx \in StepIndices : StepContainer(idx).Name = PostRenameName(idx)
        /\ Origins(Pod.Containers) = OtherStepOrigins \o SidecarOrigins

\* A step under the reserved name is among the init containers; a step
\* declared before it and a step declared after it, that one under a name that
\* starts with the reserved name, are in the main container list in this
\* order, before a sidecar declared under the reserved name.
C17_Witness ==
    /\ Succeeded
    /\ Len(given) = 3
    /\ given[2].Name = InitContainerName
    /\ given[3].Name = NearReservedName
    /\ Origins(Pod.InitContainers) = <<StepOrigin(1)>>
    /\ taskSpec.Sidecars # <<>>
    /\ taskSpec.Sidecars[1].Name = InitContainerName
    /\ Origins(Pod.Containers) =
           <<StepOrigin(0), StepOrigin(2), [kind |-> "sidecar", index |-> 0]>>

----------------------------------------------------------------------------
\* Whether every caller has made a call and is in none.
AllReturned ==
    \A c \in Callers : callers[c].log # <<>> /\ callers[c].pc = "idle"

\* Whether an update call has failed.
SomeUpdateFailed ==
    \E c \in Callers : \E k \in ReturnedCalls(c) : Call(c, k).update /\ ~Call(c, k).ok

\* Whether an update call has stored the unit.
SomeUpdateStored ==
    \E c \in Callers : \E k \in ReturnedCalls(c) : Call(c, k).update /\ Call(c, k).ok

(* C18: callers that run AddReadyAnnotation concurrently, each on its own   *)
(* copy of the stored unit, call the update function at most once each;    *)
(* what an update stores has the readiness annotation "READY", as has      *)
(* every copy after a call on it; when no update has failed and all        *)
(* callers have returned, the stored unit's readiness annotation is        *)
(* "READY".                                                                *)
C18_LastWriteWins ==
    /\ \A c \in Callers : Cardinality(UpdateCalls(c)) <= 1
    /\ \A c \in Callers : callers[c].log # <<>> => ReadyIn(units[c])
    /\ SomeUpdateStored => ReadyIn(stored)
    /\ (AllReturned /\ ~SomeUpdateFailed) => ReadyIn(stored)

\* Two callers have each marked their copy of a unit without the marker and
\* called the update function; both updates were stored, and the stored unit
\* is marked.
C18_Witness ==
    /\ Cardinality(Callers) >= 2
    /\ AllReturned
    /\ \A c \in Callers :
           /\ ~ReadyIn(Call(c, 1).before)
           /\ Call(c, 1).update
           /\ Call(c, 1).ok
           /\ Len(callers[c].log) = 1
    /\ ReadyIn(stored)

(* C19: in the calls on a unit that starts without the marker, a call that *)
(* calls the update function returns an error exactly when the update      *)
(* failed, a call that does not returns none, and a call returns no error  *)
(* only if an update of the unit has been stored, in this call or before.  *)
C19_NoErrorOnlyIfPersisted ==
    \A c \in Callers :
        (callers[c].log # <<>> /\ ~ReadyIn(Call(c, 1).before)) =>
            \A k \in ReturnedCalls(c) :
                /\ Call(c, k).update => ((Call(c, k).err # "") = ~Call(c, k).ok)
                /\ ~Call(c, k).update => Call(c, k).err = ""
                /\ Call(c, k).err = "" => SomeUpdateStored

----------------------------------------------------------------------------
\* The container of a unit that was compiled from step idx.
StepContainerOf(unit, idx) ==
    LET all == unit.InitContainers \o unit.Containers
    IN  all[CHOOSE k \in 1..Len(all) : IsStep(all[k], idx)]

\* The request of container c for the resource on heap h: whether it has an
\* entry, and the quantity.
RequestOn(h, c, name) ==
    IF c.Requests # Nil /\ name \in DOMAIN h[c.Requests]
    THEN <<TRUE, h[c.Requests][name]>> ELSE <<FALSE, zeroQty>>

\* The second invocation has returned a unit after the first had.
TwiceSucceeded == BothSucceeded /\ running = 2

\* The unit of the first invocation; parked[1].maps is the heap as it was
\* when that invocation returned.
FirstPod == parked[1].result.pod[1]

(* C20: when MakePod is called twice in sequence with one TaskSpec value,  *)
(* the second call seeing what the first wrote into the Requests maps and  *)
(* the Args arrays, the tracked maximum step of every resource is the same *)
(* in both calls, and every step has in the second unit the requests of    *)
(* every tracked resource, the number of arguments and the mounts it had   *)
(* in the first unit when that was returned.                               *)
C20_SecondCompileSame ==
    TwiceSucceeded =>
        /\ maxIndicesByResource = parked[1].maxIndicesByResource
        /\ \A idx \in StepIndices :
               LET c1 == StepContainerOf(FirstPod, idx)
                   c2 == StepContainerOf(Pod, idx)
               IN  /\ \A name \in TrackedResources :
                          RequestOn(maps, c2, name) = RequestOn(parked[1].maps, c1, name)
                   /\ c2.Args.len = c1.Args.len
                   /\ c2.VolumeMounts = c1.VolumeMounts
                   /\ c2.Name = c1.Name

\* The first call zeroed the cpu request in the map of a step that does not
\* hold the maximum and rewrote the arguments of the first step in their
\* array; the second call has returned a unit from what the first left.
C20_Witness ==
    /\ TwiceSucceeded
    /\ CallerArgs(0) # given[1].args
    /\ \E idx \in StepIndices :
           /\ GivenRequest(idx, ResourceCPU) > zeroQty
           /\ idx # maxIndicesByResource[ResourceCPU]
           /\ parked[1].maps[CallerStep(idx).Requests][ResourceCPU] = zeroQty
           /\ RequestOn(maps, StepContainerOf(Pod, idx), ResourceCPU) = <<TRUE, zeroQty>>

====
